---- MODULE Spec2Model ----
(***************************************************************************)
(* Receipt OCR pipeline (processReceipt): a storage-triggered handler that *)
(* downloads an uploaded object, asks the vision model for a record,       *)
(* appends one row to output.csv and renames the source object.            *)
(*                                                                         *)
(* The repository holds two drafts of the handler, and a deployment runs   *)
(* one of them (variant):                                                  *)
(*   "B"  the error-marking processReceipt of src/unnamed/part_000 (the    *)
(*        same logic as src/index.js:187-404), which writes output.csv;    *)
(*   "A"  the processReceipt with module-level clients of                  *)
(*        src/index.js:1-186, which writes receipt_data.csv.               *)
(*                                                                         *)
(* Representation.  A string is a sequence of tokens: the object name      *)
(* "[PROCESSED]r1.jpg" is <<"[PROCESSED]", "r1.jpg">>, so that             *)
(* `${prefix}${fileName}` is concatenation and startsWith is a test of the *)
(* first token.  ("[ERROR_PROCESSED]" does not start with "[PROCESSED]",   *)
(* nor does it contain it: the character before "PROCESSED]" is "_".)      *)
(* The CSV object is a sequence of lines, each line a sequence of cells    *)
(* (nl: whether its last line is terminated); its size is counted in       *)
(* lines.  An object's content is the pair of the name it was uploaded     *)
(* under and what the picture shows: a "receipt" the model can read, or    *)
(* "junk" it fails on every time.                                          *)
(***************************************************************************)
EXTENDS Naturals, Sequences, FiniteSets

VARIABLES variant, objects, csv, pending, inv, delivered, faults, completed

vars == <<variant, objects, csv, pending, inv, delivered, faults, completed>>

(***************************************************************************)
(* Program constants                                                       *)
(***************************************************************************)
INPUT_BUCKET_NAME == "receipt-input-data-2025-1005"

OUTPUT_CSV_FILE == <<"output.csv">>

\* Draft A: const BUCKET_NAME, CSV_FILE_NAME and the columns of its CSV.
BUCKET_NAME == "receipt-input-data-2025-1005"

CSV_FILE_NAME == <<"receipt_data.csv">>

ColumnsA ==
    << <<"source_file">>, <<"invoice_number">>, <<"issuing_company">>,
       <<"issue_date">>, <<"total_amount">> >>

Variants == {"A", "B"}

PROCESSED == "[PROCESSED]"

ERROR_PROCESSED == "[ERROR_PROCESSED]"

Columns == << <<"SourceFile">>, <<"StoreName">>, <<"TotalAmount">>, <<"TransactionDate">> >>

(***************************************************************************)
(* Bounds of the model                                                     *)
(***************************************************************************)
\* Uploaded receipts (base object names).
Bases == {"r1.jpg", "r2.jpg"}

\* Concurrent invocations of the handler.
Slots == {"i1", "i2"}

\* Error prefixes a name carries before further ones are no longer told apart
\* (names with MaxErr or more leading "[ERROR_PROCESSED]" are one abstract name).
MaxErr == 1

\* Events the runtime delivers besides those of object creations
\* (re-deliveries, events with missing fields).
MaxDeliver == 1

\* Transient failures of the collaborators (store, model) in one run.
MaxFaults == 1

NoName == <<>>

NoBucket == ""

Undefined == <<"undefined">>

(***************************************************************************)
(* Pure helpers                                                            *)
(***************************************************************************)
\* String.prototype.startsWith on token strings.
StartsWith(fileName, prefix) == Len(fileName) > 0 /\ Head(fileName) = prefix

\* if (!fileName || !bucketName)
IsInvalid(fileName, bucketName) == fileName = NoName \/ bucketName = NoBucket

\* The skip filter without its test for the output file.
IsSkipped_PrefixOnly(fileName) == StartsWith(fileName, PROCESSED)

\* if (fileName.startsWith('[PROCESSED]') || fileName === OUTPUT_CSV_FILE)
IsSkipped(fileName) == StartsWith(fileName, PROCESSED) \/ fileName = OUTPUT_CSV_FILE

RECURSIVE ErrDepth(_)
\* Number of leading "[ERROR_PROCESSED]" prefixes of a name.
ErrDepth(fileName) ==
    IF StartsWith(fileName, ERROR_PROCESSED) THEN 1 + ErrDepth(Tail(fileName)) ELSE 0

\* renameFile with the two prefixes taken the wrong way round.
NewFileName_Swapped(fileName, isError) ==
    LET prefix == IF isError THEN PROCESSED ELSE ERROR_PROCESSED
    IN  <<prefix>> \o fileName

\* renameFile: const newFileName = `${prefix}${fileName}`.  Names with MaxErr or
\* more error prefixes are one abstract name, so one more error prefix keeps it.
NewFileName(fileName, isError) ==
    LET prefix == IF isError THEN ERROR_PROCESSED ELSE PROCESSED
    IN  IF isError /\ ErrDepth(fileName) >= MaxErr THEN fileName
        ELSE <<prefix>> \o fileName

\* file.rename(newFileName) on the bucket: the object moves, its content with it.
Rename(objs, fileName, newFileName) ==
    [n \in (DOMAIN objs \ {fileName}) \cup {newFileName} |->
        IF n = newFileName THEN objs[fileName] ELSE objs[n]]

\* response.candidates[0].content.parts[0].text for a picture: a complete
\* record for a receipt, a JSON record without its store_name for a "partial"
\* picture, text that is no JSON for junk.
ModelText(image) ==
    IF image[2] = "receipt" THEN "full"
    ELSE IF image[2] = "partial" THEN "incomplete" ELSE "malformed"

\* JSON.parse(textResponse) of a well-formed answer, as a map from keys to values.
ParseJson(text) ==
    IF text = "full"
    THEN [k \in {"store_name", "total_amount", "transaction_date"} |->
            IF k = "store_name" THEN <<"Acme">>
            ELSE IF k = "total_amount" THEN <<"12.5">> ELSE <<"2024-01-01">>]
    ELSE [k \in {"total_amount", "transaction_date"} |->
            IF k = "total_amount" THEN <<"12.5">> ELSE <<"2024-01-01">>]

\* jsonOutput.key: undefined when the key is absent.
Field(jsonOutput, key) ==
    IF key \in DOMAIN jsonOutput THEN jsonOutput[key] ELSE Undefined

\* The row built with the date ahead of the store name.
convertJsonToCsvData_DateFirst(jsonOutput, sourceFileName) ==
    << <<sourceFileName,
         Field(jsonOutput, "transaction_date"),
         Field(jsonOutput, "store_name"),
         Field(jsonOutput, "total_amount")>> >>

convertJsonToCsvData(jsonOutput, sourceFileName) ==
    << <<sourceFileName,
         Field(jsonOutput, "store_name"),
         Field(jsonOutput, "total_amount"),
         Field(jsonOutput, "transaction_date")>> >>

\* stringify asked for the header on every call.
CsvString_AlwaysHeader(isNewFile, data) == <<Columns>> \o data

\* stringify({header: isNewFile, columns}) over the records: the header line
\* when asked for, then one line per record.
CsvString(isNewFile, data) == (IF isNewFile THEN <<Columns>> ELSE <<>>) \o data

\* The blob store's write of data at an offset of the object: the content up to
\* the offset, the data, and (keepTail) whatever lay beyond the written range.
WriteAt(lines, offset, data, keepTail) ==
    SubSeq(lines, 1, offset) \o data \o
    (IF keepTail /\ Len(lines) > offset + Len(data)
     THEN SubSeq(lines, offset + Len(data) + 1, Len(lines)) ELSE <<>>)

DataRows(lines) == SelectSeq(lines, LAMBDA l : l # Columns)

\* The lines whose first column is the given source file name.
RowsOf(lines, fileName) == SelectSeq(lines, LAMBDA l : Len(l) > 0 /\ l[1] = fileName)

NewEvent(name) == [name |-> name, bucket |-> INPUT_BUCKET_NAME]

(***************************************************************************)
(* State                                                                   *)
(***************************************************************************)
NoImage == <<"none", "none">>

\* An invocation slot before its first event.
IdleInv ==
    [pc |-> "idle", fileName |-> NoName, bucketName |-> NoBucket,
     image |-> NoImage, csvData |-> <<>>, isNewFile |-> FALSE,
     failedStep |-> "none",
     nDownload |-> 0, nModel |-> 0, nCsvCheck |-> 0, nCsvWrite |-> 0,
     nRename |-> 0, nErrRename |-> 0, renamed |-> "none",
     wstate |-> "none", wOffset |-> 0, wData |-> <<>>,
     rowsLanded |-> 0, ownLanded |-> 0]

Finished == {"returned", "threw"}

Running(i) == inv[i].pc \notin Finished \cup {"idle"}

\* A slot can take an event once its handler is over and its write has settled.
Free(i) == ~Running(i) /\ inv[i].wstate # "inflight"

\* The handler is over: its locals are gone.
Leave(r, pc) == [r EXCEPT !.pc = pc, !.image = NoImage, !.csvData = <<>>]

\* Whether a collaborator's call may fail transiently now.
FaultChoices == IF faults < MaxFaults THEN {FALSE, TRUE} ELSE {FALSE}

Spend(fault) == faults' = faults + (IF fault THEN 1 ELSE 0)

Init ==
    /\ variant \in Variants
    /\ objects = [n \in {} |-> NoImage]
    /\ csv = [exists |-> FALSE, lines |-> <<>>, nl |-> TRUE]
    /\ pending = {}
    /\ inv = [i \in Slots |-> IdleInv]
    /\ delivered = 0
    /\ faults = 0
    /\ completed = <<>>

(***************************************************************************)
(* The event source                                                        *)
(***************************************************************************)
\* A picture is uploaded: the object is created and its event delivered.
Upload(b, kind) ==
    /\ \A n \in DOMAIN objects : n[Len(n)] # b
    /\ objects' = [n \in DOMAIN objects \cup {<<b>>} |->
                     IF n = <<b>> THEN <<b, kind>> ELSE objects[n]]
    /\ pending' = pending \cup {NewEvent(<<b>>)}
    /\ UNCHANGED <<variant, csv, inv, delivered, faults, completed>>

\* The CSV object the deployed draft writes.
CsvName == IF variant = "A" THEN CSV_FILE_NAME ELSE OUTPUT_CSV_FILE

\* Events the runtime may deliver on its own: a repeated event for an object
\* already marked processed or for the CSV, or an event lacking its name or
\* its bucket.  Draft A reads only the name of an event, so it handles the
\* event lacking its bucket as a second event for that object; a second event
\* for an object not yet renamed is not modelled for draft B.
Deliverable ==
    {NewEvent(n) : n \in {m \in DOMAIN objects : StartsWith(m, PROCESSED)}
                         \cup {CsvName}}
    \cup {[name |-> NoName, bucket |-> INPUT_BUCKET_NAME]}
    \cup {[name |-> <<"r1.jpg">>, bucket |-> NoBucket]}

Deliver(ev) ==
    /\ delivered < MaxDeliver
    /\ ev \notin pending
    /\ delivered' = delivered + 1
    /\ pending' = pending \cup {ev}
    /\ UNCHANGED <<variant, objects, csv, inv, faults, completed>>

(***************************************************************************)
(* processReceipt, one action per stretch of code between two awaits       *)
(***************************************************************************)
\* Lines 35-56: the event is read, validated and filtered.  The invocation takes
\* a free slot; what earlier invocations left in free slots is forgotten.
Start(ev) ==
    /\ variant = "B"
    /\ ev \in pending
    /\ \E j \in Slots : Free(j)
    /\ LET i == CHOOSE j \in Slots : Free(j)
           fileName == ev.name
           bucketName == ev.bucket
           go == ~IsInvalid(fileName, bucketName) /\ ~IsSkipped(fileName)
       IN  inv' = [j \in Slots |->
                     IF j = i
                     THEN [IdleInv EXCEPT !.pc = IF go THEN "download" ELSE "returned",
                                          !.fileName = fileName,
                                          !.bucketName = bucketName]
                     ELSE IF Free(j) THEN IdleInv ELSE inv[j]]
    /\ pending' = pending \ {ev}
    /\ UNCHANGED <<variant, objects, csv, delivered, faults, completed>>

\* The download tried again after a failure instead of throwing.
Download_Retries(i) ==
    /\ inv[i].pc = "download"
    /\ LET r == [inv[i] EXCEPT !.nDownload = @ + 1]
       IN  IF inv[i].fileName \notin DOMAIN objects
           THEN /\ inv' = [inv EXCEPT ![i] = [r EXCEPT !.pc = "catch",
                                                       !.failedStep = "download"]]
                /\ UNCHANGED faults
           ELSE \E fault \in FaultChoices :
                  /\ Spend(fault)
                  /\ inv' = [inv EXCEPT ![i] =
                        IF fault
                        THEN r
                        ELSE [r EXCEPT !.pc = "extract",
                                       !.image = objects[inv[i].fileName]]]
    /\ UNCHANGED <<variant, objects, csv, pending, delivered, completed>>

\* Line 59, encodeFileToBase64: file.download() of the named object.
Download(i) ==
    /\ inv[i].pc = "download"
    /\ LET r == [inv[i] EXCEPT !.nDownload = @ + 1]
       IN  IF inv[i].fileName \notin DOMAIN objects
           THEN /\ inv' = [inv EXCEPT ![i] = [r EXCEPT !.pc = "catch",
                                                       !.failedStep = "download"]]
                /\ UNCHANGED faults
           ELSE \E fault \in FaultChoices :
                  /\ Spend(fault)
                  /\ inv' = [inv EXCEPT ![i] =
                        IF fault
                        THEN [r EXCEPT !.pc = "catch", !.failedStep = "download"]
                        ELSE [r EXCEPT !.pc = "extract",
                                       !.image = objects[inv[i].fileName]]]
    /\ UNCHANGED <<variant, objects, csv, pending, delivered, completed>>

\* analyzeImageWithGemini catching the failure of JSON.parse and returning an
\* empty record: the handler goes on to the CSV with it.
Analyze_SwallowsParseError(i) ==
    /\ inv[i].pc = "extract"
    /\ LET r == [inv[i] EXCEPT !.nModel = @ + 1]
           text == ModelText(inv[i].image)
       IN  \E fault \in FaultChoices :
             /\ Spend(fault)
             /\ inv' = [inv EXCEPT ![i] =
                   IF fault
                   THEN [r EXCEPT !.pc = "catch", !.failedStep = "extract"]
                   ELSE [r EXCEPT !.pc = "csvMeta",
                                  !.failedStep = IF text = "malformed" THEN "extract"
                                                 ELSE "none",
                                  !.csvData = convertJsonToCsvData(ParseJson(text),
                                                                   inv[i].fileName)]]
    /\ UNCHANGED <<variant, objects, csv, pending, delivered, completed>>

\* Lines 62-65, analyzeImageWithGemini and convertJsonToCsvData: the model call,
\* JSON.parse of its answer, and the row built from it.
Analyze(i) ==
    /\ inv[i].pc = "extract"
    /\ LET r == [inv[i] EXCEPT !.nModel = @ + 1]
           text == ModelText(inv[i].image)
       IN  \E fault \in FaultChoices :
             /\ Spend(fault)
             /\ inv' = [inv EXCEPT ![i] =
                   IF fault \/ text = "malformed"
                   THEN [r EXCEPT !.pc = "catch", !.failedStep = "extract"]
                   ELSE [r EXCEPT !.pc = "csvMeta",
                                  !.csvData = convertJsonToCsvData(ParseJson(text),
                                                                   inv[i].fileName)]]
    /\ UNCHANGED <<variant, objects, csv, pending, delivered, completed>>

\* createWriteStream({offset}).end(csvString): the write is handed to the
\* stream.  end() returns the stream, not a promise, so the await on it resumes
\* at once: the handler goes on while the write is in flight.
IssueWrite(r, isNewFile, offset) ==
    [r EXCEPT !.pc = "rename",
              !.isNewFile = isNewFile,
              !.nCsvWrite = @ + 1,
              !.wstate = "inflight",
              !.wOffset = offset,
              !.wData = CsvString(isNewFile, r.csvData)]

\* Lines 172-181 of appendDataToCsvFile: the first file.getMetadata().  A 404
\* means a new file, written from offset 0; any other error is rethrown.
CsvMeta(i) ==
    /\ inv[i].pc = "csvMeta"
    /\ LET r == [inv[i] EXCEPT !.nCsvCheck = @ + 1]
       IN  \E fault \in FaultChoices :
             /\ Spend(fault)
             /\ inv' = [inv EXCEPT ![i] =
                   IF fault THEN [r EXCEPT !.pc = "catch", !.failedStep = "csvMeta"]
                   ELSE IF csv.exists THEN [r EXCEPT !.pc = "csvSize"]
                   ELSE IssueWrite(r, TRUE, 0)]
    /\ UNCHANGED <<variant, objects, csv, pending, delivered, completed>>

\* The write begun from offset 0 before the size is read: a failure of the
\* size read is thrown with the write already on its way.
CsvSize_WritesBeforeSize(i) ==
    /\ inv[i].pc = "csvSize"
    /\ LET r == [inv[i] EXCEPT !.nCsvCheck = @ + 1]
       IN  \E fault \in FaultChoices :
             /\ Spend(fault)
             /\ inv' = [inv EXCEPT ![i] =
                   IF fault
                   THEN [IssueWrite(r, FALSE, 0) EXCEPT !.pc = "catch",
                                                        !.failedStep = "csvSize"]
                   ELSE IssueWrite(r, FALSE, Len(csv.lines))]
    /\ UNCHANGED <<variant, objects, csv, pending, delivered, completed>>

\* Lines 196-209: for an existing file the offset is the size that a second
\* file.getMetadata() reports; its failure is caught and thrown as the CSV
\* write error.
CsvSize(i) ==
    /\ inv[i].pc = "csvSize"
    /\ LET r == [inv[i] EXCEPT !.nCsvCheck = @ + 1]
       IN  \E fault \in FaultChoices :
             /\ Spend(fault)
             /\ inv' = [inv EXCEPT ![i] =
                   IF fault THEN [r EXCEPT !.pc = "catch", !.failedStep = "csvSize"]
                   ELSE IssueWrite(r, FALSE, Len(csv.lines))]
    /\ UNCHANGED <<variant, objects, csv, pending, delivered, completed>>

\* The success rename followed by a statement that throws inside the try: the
\* handler falls into the catch block with its object already renamed.
RenameProcessed_ThenThrows(i) ==
    /\ inv[i].pc = "rename"
    /\ LET fileName == inv[i].fileName
           newFileName == NewFileName(fileName, FALSE)
           r == [inv[i] EXCEPT !.nRename = @ + 1]
           failed == [r EXCEPT !.pc = "catch", !.failedStep = "rename"]
       IN  IF fileName \notin DOMAIN objects
           THEN /\ inv' = [inv EXCEPT ![i] = failed]
                /\ UNCHANGED <<objects, pending, completed, faults>>
           ELSE \E fault \in FaultChoices :
                  /\ Spend(fault)
                  /\ IF fault
                     THEN /\ inv' = [inv EXCEPT ![i] = failed]
                          /\ UNCHANGED <<objects, pending, completed>>
                     ELSE /\ objects' = Rename(objects, fileName, newFileName)
                          /\ pending' = pending \cup {NewEvent(newFileName)}
                          /\ inv' = [inv EXCEPT ![i] =
                                [r EXCEPT !.renamed = "processed", !.pc = "catch"]]
                          /\ completed' = Append(completed, fileName)
    /\ UNCHANGED <<variant, csv, delivered>>

\* Lines 71-73, renameFile(bucketName, fileName): on success the handler returns.
RenameProcessed(i) ==
    /\ inv[i].pc = "rename"
    /\ LET fileName == inv[i].fileName
           newFileName == NewFileName(fileName, FALSE)
           r == [inv[i] EXCEPT !.nRename = @ + 1]
           failed == [r EXCEPT !.pc = "catch", !.failedStep = "rename"]
       IN  IF fileName \notin DOMAIN objects
           THEN /\ inv' = [inv EXCEPT ![i] = failed]
                /\ UNCHANGED <<objects, pending, completed, faults>>
           ELSE \E fault \in FaultChoices :
                  /\ Spend(fault)
                  /\ IF fault
                     THEN /\ inv' = [inv EXCEPT ![i] = failed]
                          /\ UNCHANGED <<objects, pending, completed>>
                     ELSE /\ objects' = Rename(objects, fileName, newFileName)
                          /\ pending' = pending \cup {NewEvent(newFileName)}
                          /\ inv' = [inv EXCEPT ![i] =
                                Leave([r EXCEPT !.renamed = "processed"], "returned")]
                          /\ completed' = Append(completed, fileName)
    /\ UNCHANGED <<variant, csv, delivered>>

\* The catch block with its throw inside the inner try, after the error rename:
\* a failed error rename is logged and the handler returns.
CatchError_MasksFailure(i) ==
    /\ inv[i].pc = "catch"
    /\ LET fileName == inv[i].fileName
           newFileName == NewFileName(fileName, TRUE)
           r == [inv[i] EXCEPT !.nErrRename = @ + 1]
       IN  IF fileName \notin DOMAIN objects
           THEN /\ inv' = [inv EXCEPT ![i] = Leave(r, "returned")]
                /\ UNCHANGED <<objects, pending, faults>>
           ELSE \E fault \in FaultChoices :
                  /\ Spend(fault)
                  /\ IF fault
                     THEN /\ inv' = [inv EXCEPT ![i] = Leave(r, "returned")]
                          /\ UNCHANGED <<objects, pending>>
                     ELSE /\ objects' = Rename(objects, fileName, newFileName)
                          /\ pending' = pending \cup {NewEvent(newFileName)}
                          /\ inv' = [inv EXCEPT ![i] =
                                Leave([r EXCEPT !.renamed = "error"], "threw")]
    /\ UNCHANGED <<variant, csv, delivered, completed>>

\* Lines 75-84, the catch block: renameFile(bucketName, fileName, true), whose
\* own failure is only logged, then throw new Error(...).
CatchError(i) ==
    /\ inv[i].pc = "catch"
    /\ LET fileName == inv[i].fileName
           newFileName == NewFileName(fileName, TRUE)
           r == Leave([inv[i] EXCEPT !.nErrRename = @ + 1], "threw")
       IN  IF fileName \notin DOMAIN objects
           THEN /\ inv' = [inv EXCEPT ![i] = r]
                /\ UNCHANGED <<objects, pending, faults>>
           ELSE \E fault \in FaultChoices :
                  /\ Spend(fault)
                  /\ IF fault
                     THEN /\ inv' = [inv EXCEPT ![i] = r]
                          /\ UNCHANGED <<objects, pending>>
                     ELSE /\ objects' = Rename(objects, fileName, newFileName)
                          /\ pending' = pending \cup {NewEvent(newFileName)}
                          /\ inv' = [inv EXCEPT ![i] = [r EXCEPT !.renamed = "error"]]
    /\ UNCHANGED <<variant, csv, delivered, completed>>

(***************************************************************************)
(* The blob store settles a write in flight                                *)
(***************************************************************************)
\* The write reaches the object: output.csv is created or rewritten from the
\* offset, which delivers an event for output.csv.
WriteLand(i) ==
    /\ inv[i].wstate = "inflight"
    /\ inv[i].wOffset <= Len(csv.lines)
    /\ \E keepTail \in BOOLEAN :
         csv' = [exists |-> TRUE,
                 lines |-> WriteAt(csv.lines, inv[i].wOffset, inv[i].wData, keepTail),
                 nl |-> TRUE]
    /\ inv' = [inv EXCEPT ![i].wstate = "landed",
                          ![i].rowsLanded = Len(DataRows(inv[i].wData)),
                          ![i].ownLanded = Len(RowsOf(inv[i].wData, inv[i].fileName)),
                          ![i].wData = <<>>,
                          ![i].wOffset = 0]
    /\ pending' = pending \cup {NewEvent(OUTPUT_CSV_FILE)}
    /\ UNCHANGED <<variant, objects, delivered, faults, completed>>

\* The write fails in the store or on the way (always so when its offset lies
\* beyond the end of the object).  The stream reports it to nobody: the handler
\* is past the await and has attached no listener.
WriteFail(i) ==
    /\ inv[i].wstate = "inflight"
    /\ IF inv[i].wOffset > Len(csv.lines)
       THEN UNCHANGED faults
       ELSE faults < MaxFaults /\ Spend(TRUE)
    /\ inv' = [inv EXCEPT ![i].wstate = "failed",
                          ![i].wData = <<>>,
                          ![i].wOffset = 0]
    /\ UNCHANGED <<variant, objects, csv, pending, delivered, completed>>

(***************************************************************************)
(* Draft A (src/index.js:1-186): processReceipt with module-level clients. *)
(* Its helpers catch their own failures and return null, its handler       *)
(* catches everything else and only logs; every store call is awaited.     *)
(***************************************************************************)
\* String.prototype.includes on token strings.
Includes(fileName, part) == \E k \in 1..Len(fileName) : fileName[k] = part

\* if (fileName.includes('[PROCESSED]') || fileName === CSV_FILE_NAME)
IsSkippedA(fileName) == Includes(fileName, PROCESSED) \/ fileName = CSV_FILE_NAME

\* JSON.parse(jsonText.trim()) of the answer to draft A's prompt.
ParseJsonA(text) ==
    [k \in {"invoice_number", "issuing_company", "issue_date", "total_amount"} |->
        IF k = "invoice_number" THEN <<"INV-1">>
        ELSE IF k = "issuing_company" THEN <<"Acme">>
        ELSE IF k = "issue_date" THEN <<"2024-01-01">> ELSE <<"12">>]

\* stringify([{source_file, ...data}], {header: false, columns}): one line, the
\* columns in their fixed order.
RowA(data, sourceFileName) ==
    << <<sourceFileName, data["invoice_number"], data["issuing_company"],
         data["issue_date"], data["total_amount"]>> >>

\* The new file saved with its header alone, the row left to a later append.
SaveText_HeaderOnly(data) == [exists |-> TRUE, lines |-> <<ColumnsA>>, nl |-> TRUE]

\* csvFile.save(headerRow + csvData): the object becomes header and row, each
\* line terminated.
SaveText(data) == [exists |-> TRUE, lines |-> <<ColumnsA>> \o data, nl |-> TRUE]

\* csvFile.append('\n' + csvData.trim()): a line break, then the row without
\* its terminator.  After a terminated last line the break leaves an empty line.
AppendText(c, data) ==
    [exists |-> TRUE,
     lines |-> c.lines \o (IF c.nl THEN << <<>> >> ELSE <<>>) \o data,
     nl |-> FALSE]

\* Lines 24-34: file.name is read and filtered.  fileName.includes throws a
\* TypeError, outside the try block, when the event has no name.
StartA(ev) ==
    /\ variant = "A"
    /\ ev \in pending
    /\ \E j \in Slots : Free(j)
    /\ LET i == CHOOSE j \in Slots : Free(j)
           fileName == ev.name
           pc == IF fileName = NoName THEN "threw"
                 ELSE IF IsSkippedA(fileName) THEN "returned" ELSE "A_download"
       IN  inv' = [j \in Slots |->
                     IF j = i
                     THEN [IdleInv EXCEPT !.pc = pc,
                                          !.fileName = fileName,
                                          !.bucketName = BUCKET_NAME]
                     ELSE IF Free(j) THEN IdleInv ELSE inv[j]]
    /\ pending' = pending \ {ev}
    /\ UNCHANGED <<variant, objects, csv, delivered, faults, completed>>

\* Lines 38-39 and 67-78, encodeFileToBase64: a failed download gives null and
\* the handler returns.
DownloadA(i) ==
    /\ inv[i].pc = "A_download"
    /\ LET r == [inv[i] EXCEPT !.nDownload = @ + 1]
           failed == Leave([r EXCEPT !.failedStep = "download"], "returned")
       IN  IF inv[i].fileName \notin DOMAIN objects
           THEN /\ inv' = [inv EXCEPT ![i] = failed]
                /\ UNCHANGED faults
           ELSE \E fault \in FaultChoices :
                  /\ Spend(fault)
                  /\ inv' = [inv EXCEPT ![i] =
                        IF fault THEN failed
                        ELSE [r EXCEPT !.pc = "A_gemini",
                                       !.image = objects[inv[i].fileName]]]
    /\ UNCHANGED <<variant, objects, csv, pending, delivered, completed>>

\* Lines 42-43 and 83-127, callGeminiApi: a failed call or a failed JSON.parse
\* gives null and the handler returns; lines 137-153 build the row.
CallGeminiA(i) ==
    /\ inv[i].pc = "A_gemini"
    /\ LET r == [inv[i] EXCEPT !.nModel = @ + 1]
           text == ModelText(inv[i].image)
       IN  \E fault \in FaultChoices :
             /\ Spend(fault)
             /\ inv' = [inv EXCEPT ![i] =
                   IF fault \/ text = "malformed"
                   THEN Leave([r EXCEPT !.failedStep = "extract"], "returned")
                   ELSE [r EXCEPT !.pc = "A_exists",
                                  !.csvData = RowA(ParseJsonA(text), inv[i].fileName)]]
    /\ UNCHANGED <<variant, objects, csv, pending, delivered, completed>>

\* Line 157, csvFile.exists().  A failure is thrown as the CSV write error,
\* which the handler's catch logs before returning.
ExistsA(i) ==
    /\ inv[i].pc = "A_exists"
    /\ LET r == [inv[i] EXCEPT !.nCsvCheck = @ + 1]
       IN  \E fault \in FaultChoices :
             /\ Spend(fault)
             /\ inv' = [inv EXCEPT ![i] =
                   IF fault THEN Leave([r EXCEPT !.failedStep = "csvMeta"], "returned")
                   ELSE [r EXCEPT !.isNewFile = ~csv.exists, !.pc = "A_write"]]
    /\ UNCHANGED <<variant, objects, csv, pending, delivered, completed>>

\* Lines 159-169: save of header and row for a new file, append of the row
\* otherwise, awaited.
WriteA(i) ==
    /\ inv[i].pc = "A_write"
    /\ LET r == [inv[i] EXCEPT !.nCsvWrite = @ + 1]
       IN  \E fault \in FaultChoices :
             /\ Spend(fault)
             /\ IF fault
                THEN /\ inv' = [inv EXCEPT ![i] =
                           Leave([r EXCEPT !.failedStep = "csvWrite",
                                           !.wstate = "failed"], "returned")]
                     /\ UNCHANGED <<csv, pending>>
                ELSE /\ csv' = IF inv[i].isNewFile THEN SaveText(inv[i].csvData)
                               ELSE AppendText(csv, inv[i].csvData)
                     /\ pending' = pending \cup {NewEvent(CSV_FILE_NAME)}
                     /\ inv' = [inv EXCEPT ![i] =
                           [r EXCEPT !.pc = "A_rename",
                                     !.wstate = "landed",
                                     !.rowsLanded = Len(inv[i].csvData),
                                     !.ownLanded = Len(RowsOf(inv[i].csvData,
                                                              inv[i].fileName))]]
    /\ UNCHANGED <<variant, objects, delivered, completed>>

\* Lines 49-56 and 179-186, renameFile: a failure is logged by the handler's
\* catch, which returns.
RenameA(i) ==
    /\ inv[i].pc = "A_rename"
    /\ LET fileName == inv[i].fileName
           newFileName == <<PROCESSED>> \o fileName
           r == [inv[i] EXCEPT !.nRename = @ + 1]
           failed == Leave([r EXCEPT !.failedStep = "rename"], "returned")
       IN  IF fileName \notin DOMAIN objects
           THEN /\ inv' = [inv EXCEPT ![i] = failed]
                /\ UNCHANGED <<objects, pending, completed, faults>>
           ELSE \E fault \in FaultChoices :
                  /\ Spend(fault)
                  /\ IF fault
                     THEN /\ inv' = [inv EXCEPT ![i] = failed]
                          /\ UNCHANGED <<objects, pending, completed>>
                     ELSE /\ objects' = Rename(objects, fileName, newFileName)
                          /\ pending' = pending \cup {NewEvent(newFileName)}
                          /\ inv' = [inv EXCEPT ![i] =
                                Leave([r EXCEPT !.renamed = "processed"], "returned")]
                          /\ completed' = Append(completed, fileName)
    /\ UNCHANGED <<variant, csv, delivered>>

Kinds == {"receipt", "junk"}

Next ==
    \/ \E b \in Bases, kind \in Kinds : Upload(b, kind)
    \/ \E ev \in Deliverable : Deliver(ev)
    \/ \E ev \in pending : Start(ev)
    \/ \E i \in Slots : Download(i)
    \/ \E i \in Slots : Analyze(i)
    \/ \E i \in Slots : CsvMeta(i)
    \/ \E i \in Slots : CsvSize(i)
    \/ \E i \in Slots : RenameProcessed(i)
    \/ \E i \in Slots : CatchError(i)
    \/ \E i \in Slots : WriteLand(i)
    \/ \E i \in Slots : WriteFail(i)
    \/ \E ev \in pending : StartA(ev)
    \/ \E i \in Slots : DownloadA(i)
    \/ \E i \in Slots : CallGeminiA(i)
    \/ \E i \in Slots : ExistsA(i)
    \/ \E i \in Slots : WriteA(i)
    \/ \E i \in Slots : RenameA(i)

Spec == Init /\ [][Next]_vars

(***************************************************************************)
(* Fairness: the runtime starts a handler for each delivered event, every  *)
(* awaited call of a handler returns or fails, and the store settles every *)
(* write handed to it.  Uploads and extra deliveries are under no          *)
(* obligation.                                                             *)
(***************************************************************************)
Step(i) ==
    \/ Download(i)
    \/ Analyze(i)
    \/ CsvMeta(i)
    \/ CsvSize(i)
    \/ RenameProcessed(i)
    \/ CatchError(i)
    \/ DownloadA(i)
    \/ CallGeminiA(i)
    \/ ExistsA(i)
    \/ WriteA(i)
    \/ RenameA(i)

Settle(i) == WriteLand(i) \/ WriteFail(i)

RECURSIVE ErrPrefixed(_, _)
ErrPrefixed(n, k) == IF k = 0 THEN n ELSE <<ERROR_PROCESSED>> \o ErrPrefixed(n, k - 1)

\* Every event the model can hold.
AllEvents ==
    LET errNames == {ErrPrefixed(<<b>>, k) : b \in Bases, k \in 0..MaxErr}
    IN  {NewEvent(n) : n \in errNames \cup {<<PROCESSED>> \o m : m \in errNames}
                             \cup {OUTPUT_CSV_FILE, CSV_FILE_NAME, NoName}}
        \cup {[name |-> <<"r1.jpg">>, bucket |-> NoBucket]}

Fairness ==
    /\ \A ev \in AllEvents : WF_vars(Start(ev))
    /\ \A ev \in AllEvents : WF_vars(StartA(ev))
    /\ \A i \in Slots : WF_vars(Step(i))
    /\ \A i \in Slots : WF_vars(Settle(i))

FairSpec == Spec /\ Fairness

(***************************************************************************)
(* Vocabulary of the properties                                            *)
(***************************************************************************)
\* The invocation in slot i called no collaborator at all.
NoOperation(r) ==
    /\ r.nDownload = 0
    /\ r.nModel = 0
    /\ r.nCsvCheck = 0
    /\ r.nCsvWrite = 0
    /\ r.nRename = 0
    /\ r.nErrRename = 0
    /\ r.wstate = "none"
    /\ r.renamed = "none"

\* Names the skip filter is documented to ignore.
ProcessedName(n) == Len(n) > 0 /\ n[1] = PROCESSED

ErrorMarkedName(n) == Len(n) > 0 /\ n[1] = ERROR_PROCESSED

\* The error-marking handler (draft B) is the one deployed.
ErrorMarking == variant = "B"

\* C1: an event whose object name starts with "[PROCESSED]" or is output.csv
\* makes processReceipt return normally having called nothing (no download, no
\* model call, no CSV check or write, no rename), and the step that handles it
\* leaves the bucket's objects and the CSV as they were.
SkipFilterIsNoOp ==
    /\ [](\A i \in Slots :
            (/\ ErrorMarking
             /\ ProcessedName(inv[i].fileName) \/ inv[i].fileName = OUTPUT_CSV_FILE)
            => inv[i].pc = "returned" /\ NoOperation(inv[i]))
    /\ [][(/\ ErrorMarking
           /\ \E ev \in pending \ pending' :
                 ProcessedName(ev.name) \/ ev.name = OUTPUT_CSV_FILE)
          => objects' = objects /\ csv' = csv]_vars

\* C1 witness: a handler has returned from an event for a "[PROCESSED]" name
\* while the bucket holds that object and the CSV.
SkipFilterWitness ==
    \E i \in Slots :
        /\ ErrorMarking
        /\ inv[i].pc = "returned"
        /\ ProcessedName(inv[i].fileName)
        /\ inv[i].fileName \in DOMAIN objects
        /\ csv.exists

\* C2: an event whose object name bears the "[ERROR_PROCESSED]" prefix is
\* ignored: no download, no model call, no CSV write, no rename.
ErrorMarkedIsIgnored ==
    \A i \in Slots :
        (ErrorMarking /\ ErrorMarkedName(inv[i].fileName)) => NoOperation(inv[i])

\* Nothing is left to do: no event waits and no handler runs.
Quiescent == pending = {} /\ \A i \in Slots : ~Running(i)

\* C3: with every object creation delivering an event, the chain of handlers an
\* upload sets off is finite: whenever an event is pending, the system later
\* reaches a state with no pending event and no running handler.
NoReprocessingLoop == (ErrorMarking /\ pending # {}) ~> Quiescent

\* The invocation in slot i saw one of its steps fail.
StepFailed(r) == r.failedStep # "none" \/ r.wstate = "failed"

\* C4: when the download, the extraction, the CSV append or the success rename
\* of a handler fails, the later steps are not run, the error rename is
\* attempted exactly once and the handler ends by throwing.
FailurePathMarksAndThrows ==
    \A i \in Slots :
        (ErrorMarking /\ inv[i].pc \in Finished /\ StepFailed(inv[i])) =>
            /\ inv[i].pc = "threw"
            /\ inv[i].nErrRename = 1
            /\ (inv[i].failedStep = "download" =>
                    inv[i].nModel = 0 /\ inv[i].nCsvCheck = 0
                    /\ inv[i].nCsvWrite = 0 /\ inv[i].nRename = 0)
            /\ (inv[i].failedStep = "extract" =>
                    inv[i].nCsvCheck = 0 /\ inv[i].nCsvWrite = 0 /\ inv[i].nRename = 0)
            /\ (inv[i].failedStep \in {"csvMeta", "csvSize"} \/ inv[i].wstate = "failed"
                    => inv[i].nRename = 0)

\* The handler in slot i ran with every step succeeding: it returned after its
\* success rename, and its write of the row reached the CSV.
AllSucceeded(r) ==
    r.pc = "returned" /\ r.renamed = "processed" /\ r.wstate = "landed"

\* C5: when download, extraction, CSV append and rename all succeed, the source
\* object is now named "[PROCESSED]" + name and no longer under its old name,
\* holds the content it was uploaded with, exactly one row, for that name, was
\* added to the CSV, no error rename was attempted, and the handler returned.
SuccessPath ==
    \A i \in Slots :
        (ErrorMarking /\ AllSucceeded(inv[i])) =>
            LET fileName == inv[i].fileName
                marked == <<PROCESSED>> \o fileName
            IN  /\ marked \in DOMAIN objects
                /\ fileName \notin DOMAIN objects
                /\ objects[marked] = <<fileName[Len(fileName)], "receipt">>
                /\ inv[i].rowsLanded = 1
                /\ inv[i].ownLanded = 1
                /\ inv[i].nCsvWrite = 1
                /\ inv[i].nRename = 1
                /\ inv[i].nErrRename = 0
                /\ inv[i].failedStep = "none"

\* C5 witness: a handler for an uploaded receipt has gone through all its steps
\* with success.
SuccessPathWitness ==
    \E i \in Slots :
        ErrorMarking /\ AllSucceeded(inv[i]) /\ inv[i].fileName = <<"r1.jpg">>

\* C6: when the write of the row to the output CSV fails, the handler does not
\* rename the source object with "[PROCESSED]": it attempts the error rename and
\* throws.
FailedWriteIsHardFailure ==
    \A i \in Slots :
        (ErrorMarking /\ inv[i].wstate = "failed" /\ inv[i].pc \in Finished) =>
            /\ inv[i].renamed # "processed"
            /\ inv[i].nErrRename = 1
            /\ inv[i].pc = "threw"

\* C7: the steps of one handler never overlap: the model is called after the
\* download has completed, the CSV is written after the model call, and when
\* the handler comes to rename the source object its CSV write has completed
\* (the row is in the stored object).
StrictStepOrdering ==
    \A i \in Slots :
        /\ inv[i].pc = "extract" => inv[i].nDownload = 1
        /\ inv[i].pc \in {"csvMeta", "csvSize"} => inv[i].nModel = 1
        /\ inv[i].pc = "rename" => inv[i].wstate = "landed"
        /\ inv[i].nRename > 0 => inv[i].wstate # "inflight"

\* C8: a data row present in the output CSV is present in every later state:
\* no write of one handler overwrites or truncates the row of another.
NoRowLost ==
    [][ErrorMarking =>
          \A k \in 1..Len(csv.lines) :
              csv.lines[k] # Columns =>
                  \E m \in 1..Len(csv'.lines) : csv'.lines[m] = csv.lines[k]]_vars

\* The header line of the deployed draft's CSV.
Header == IF variant = "A" THEN ColumnsA ELSE Columns

\* C9: whenever the output CSV exists it has exactly one header line, and that
\* line is its first, with either draft's appender.
SingleHeader ==
    csv.exists =>
        /\ Len(csv.lines) >= 1
        /\ csv.lines[1] = Header
        /\ \A k \in 2..Len(csv.lines) : csv.lines[k] # Header

\* C9 witness: two handlers both found no CSV at their existence check, both
\* wrote header and row from offset 0, and both writes have reached the CSV.
SingleHeaderWitness ==
    /\ ErrorMarking
    /\ csv.exists
    /\ \A i \in Slots : inv[i].isNewFile /\ inv[i].wstate = "landed"
    /\ \E i, j \in Slots : inv[i].fileName # inv[j].fileName

(***************************************************************************)
(* Handlers run one after another, with receipts only and no failure.      *)
(***************************************************************************)
InitSeq ==
    /\ variant \in Variants
    /\ objects = [n \in {} |-> NoImage]
    /\ csv = [exists |-> FALSE, lines |-> <<>>, nl |-> TRUE]
    /\ pending = {}
    /\ inv = [i \in Slots |-> IdleInv]
    /\ delivered = MaxDeliver
    /\ faults = MaxFaults
    /\ completed = <<>>

\* A handler starts only when no other handler is running.
StartSeq(ev) == (\A i \in Slots : ~Running(i)) /\ Start(ev)

StartSeqA(ev) == (\A i \in Slots : ~Running(i)) /\ StartA(ev)

NextSeq ==
    \/ \E b \in Bases : Upload(b, "receipt")
    \/ \E ev \in pending : StartSeq(ev)
    \/ \E i \in Slots : Download(i)
    \/ \E i \in Slots : Analyze(i)
    \/ \E i \in Slots : CsvMeta(i)
    \/ \E i \in Slots : CsvSize(i)
    \/ \E i \in Slots : RenameProcessed(i)
    \/ \E i \in Slots : WriteLand(i)
    \/ \E ev \in pending : StartSeqA(ev)
    \/ \E i \in Slots : DownloadA(i)
    \/ \E i \in Slots : CallGeminiA(i)
    \/ \E i \in Slots : ExistsA(i)
    \/ \E i \in Slots : WriteA(i)
    \/ \E i \in Slots : RenameA(i)

SeqSpec == InitSeq /\ [][NextSeq]_vars

\* The row the handler builds for a readable receipt.
RowFor(fileName) ==
    IF variant = "A" THEN RowA(ParseJsonA("full"), fileName)[1]
    ELSE convertJsonToCsvData(ParseJson("full"), fileName)[1]

\* C10: after N successful handlers run one after another on N distinct objects,
\* starting without CSV, the CSV is one header line followed by exactly N data
\* lines, one per object in the order of the invocations.
SequentialGrowth ==
    (Quiescent /\ Len(completed) > 0 /\ \A i \in Slots : inv[i].wstate # "inflight")
    => csv.lines = <<Header>> \o [k \in 1..Len(completed) |-> RowFor(completed[k])]

(***************************************************************************)
(* The catch block                                                         *)
(***************************************************************************)
\* The handler in slot i is over and its error rename was attempted in vain.
FailedErrorRename(r) == r.pc \in Finished /\ r.nErrRename > 0 /\ r.renamed # "error"

\* C11: when a step of the handler failed and the error rename failed too, the
\* handler has thrown, has attempted the error rename once and no rename after
\* it, has run none of the steps after the failed one, and the source object is
\* still under its original name.
ErrorRenameFailureNotMasked ==
    \A i \in Slots :
        (ErrorMarking /\ FailedErrorRename(inv[i])) =>
            /\ inv[i].pc = "threw"
            /\ inv[i].failedStep # "none"
            /\ inv[i].nErrRename = 1
            /\ inv[i].nRename <= 1
            /\ inv[i].renamed = "none"
            /\ inv[i].fileName \in DOMAIN objects
            /\ (inv[i].failedStep \in {"download", "extract", "csvMeta", "csvSize"}
                    => inv[i].nCsvWrite = 0 /\ inv[i].nRename = 0)
            /\ (inv[i].failedStep = "download"
                    => inv[i].nModel = 0 /\ inv[i].nCsvCheck = 0)
            /\ (inv[i].failedStep = "extract" => inv[i].nCsvCheck = 0)

\* C11 witness: extraction failed, the error rename failed, the handler threw and
\* the object is where it was.
ErrorRenameFailureWitness ==
    \E i \in Slots :
        /\ ErrorMarking
        /\ FailedErrorRename(inv[i])
        /\ inv[i].failedStep = "extract"
        /\ inv[i].pc = "threw"
        /\ inv[i].fileName \in DOMAIN objects

\* The handler in slot i failed before its append step.
FailedBeforeAppend(r) == r.failedStep \in {"download", "extract"}

\* C12: a handler whose download failed has not called the model and has neither
\* checked nor written the CSV; a handler whose extraction failed has not written
\* the CSV; and every change of the CSV is the arrival of a write of a handler
\* that did not fail before its append step.
FailureBeforeAppendLeavesCsv ==
    /\ [](\A i \in Slots :
            /\ inv[i].failedStep = "download" =>
                   /\ inv[i].nModel = 0
                   /\ inv[i].nCsvCheck = 0
            /\ FailedBeforeAppend(inv[i]) =>
                   /\ inv[i].nCsvWrite = 0
                   /\ inv[i].wstate = "none"
                   /\ inv[i].rowsLanded = 0)
    /\ [][csv' # csv =>
            \E i \in Slots :
                /\ inv[i].wstate # "landed"
                /\ inv'[i].wstate = "landed"
                /\ ~FailedBeforeAppend(inv[i])
                /\ ~FailedBeforeAppend(inv'[i])]_vars

\* C12 witness: a handler threw for a failed download while the CSV holds the
\* row of an earlier handler.
FailureBeforeAppendWitness ==
    /\ csv.exists
    /\ Len(csv.lines) >= 2
    /\ \E i \in Slots :
          /\ inv[i].pc = "threw"
          /\ inv[i].failedStep = "download"
          /\ inv[i].nDownload = 1

(***************************************************************************)
(* The model answers with JSON that lacks a field.                         *)
(***************************************************************************)
InitPartial ==
    /\ variant = "B"
    /\ objects = [n \in {} |-> NoImage]
    /\ csv = [exists |-> FALSE, lines |-> <<>>, nl |-> TRUE]
    /\ pending = {}
    /\ inv = [i \in Slots |-> IdleInv]
    /\ delivered = MaxDeliver
    /\ faults = 0
    /\ completed = <<>>

NextPartial ==
    \/ \E b \in Bases : Upload(b, "partial")
    \/ \E ev \in pending : Start(ev)
    \/ \E i \in Slots : Download(i)
    \/ \E i \in Slots : Analyze(i)
    \/ \E i \in Slots : CsvMeta(i)
    \/ \E i \in Slots : CsvSize(i)
    \/ \E i \in Slots : RenameProcessed(i)
    \/ \E i \in Slots : CatchError(i)
    \/ \E i \in Slots : WriteLand(i)
    \/ \E i \in Slots : WriteFail(i)

PartialSpec == InitPartial /\ [][NextPartial]_vars

\* A row with a cell for an absent field.
HasUndefined(line) == \E k \in 1..Len(line) : line[k] = Undefined

\* C13: when the model's JSON lacks a required field the handler writes no row:
\* no write it issues and no line of the CSV carries the cell of an absent
\* field, and a handler that got such a record ends by throwing after an
\* attempt at the error rename.
IncompleteOutputIsHardFailure ==
    /\ \A k \in 1..Len(csv.lines) : ~HasUndefined(csv.lines[k])
    /\ \A i \in Slots :
          /\ \A k \in 1..Len(inv[i].wData) : ~HasUndefined(inv[i].wData[k])
          /\ (inv[i].pc \in Finished /\ inv[i].nModel = 1
                 /\ inv[i].fileName \in {<<b>> : b \in Bases})
              => inv[i].pc = "threw" /\ inv[i].nErrRename = 1

(***************************************************************************)
(* Events with missing fields                                              *)
(***************************************************************************)
\* C14: the handler that takes an event lacking its object name or its bucket
\* name returns at once, without throwing and without a download, a model call,
\* a CSV operation or a rename, in either draft.
InvalidEventIsNoOp ==
    [][\A ev \in pending \ pending' :
          IsInvalid(ev.name, ev.bucket) =>
              \E i \in Slots :
                  /\ Free(i)
                  /\ inv'[i].fileName = ev.name
                  /\ inv'[i].pc = "returned"
                  /\ NoOperation(inv'[i])]_vars

(***************************************************************************)
(* The row                                                                 *)
(***************************************************************************)
\* The record the model gave for the picture the handler in slot i holds.
RecordOf(r) == ParseJson(ModelText(r.image))

\* C15: the data the handler hands to the CSV appender is one row of four
\* cells, the source object name, store_name, total_amount and
\* transaction_date of the record in that order, as many as the header has
\* columns; every write issued carries that row last, and every line of the CSV
\* has the header's number of columns.
RowShape ==
    ErrorMarking =>
        /\ \A i \in Slots :
              /\ inv[i].csvData # <<>> =>
                    /\ Len(inv[i].csvData) = 1
                    /\ Len(inv[i].csvData[1]) = Len(Columns)
                    /\ inv[i].csvData[1][1] = inv[i].fileName
                    /\ inv[i].csvData[1][2] = RecordOf(inv[i])["store_name"]
                    /\ inv[i].csvData[1][3] = RecordOf(inv[i])["total_amount"]
                    /\ inv[i].csvData[1][4] = RecordOf(inv[i])["transaction_date"]
              /\ inv[i].wData # <<>> =>
                    /\ Len(inv[i].wData[Len(inv[i].wData)]) = Len(Columns)
                    /\ inv[i].wData[Len(inv[i].wData)][1] = inv[i].fileName
        /\ \A k \in 1..Len(csv.lines) : Len(csv.lines[k]) = Len(Columns)
        /\ \A k \in 1..Len(csv.lines) :
              csv.lines[k] # Columns =>
                  /\ csv.lines[k][2] = <<"Acme">>
                  /\ csv.lines[k][3] = <<"12.5">>
                  /\ csv.lines[k][4] = <<"2024-01-01">>

\* C15 witness: a handler holds the row for its receipt while the CSV already
\* has the header and the row of another receipt.
RowShapeWitness ==
    /\ ErrorMarking
    /\ Len(csv.lines) >= 2
    /\ \E i \in Slots :
          /\ inv[i].pc \in {"csvMeta", "csvSize"}
          /\ inv[i].csvData # <<>>
          /\ \A k \in 1..Len(csv.lines) : csv.lines[k][1] # inv[i].fileName

(***************************************************************************)
(* Header and first row                                                    *)
(***************************************************************************)
\* A line of the CSV that is a data row: not the header, not an empty line.
IsDataRow(line) == line # Header /\ line # <<>>

\* C16: in every state in which the CSV exists it holds at least one data row
\* besides its header, also after a write has failed: header and first row
\* arrive in one write, in either draft.
NoHeaderOnlyCsv ==
    csv.exists => \E k \in 1..Len(csv.lines) : IsDataRow(csv.lines[k])

\* C16 witness: the CSV exists and the write of some handler has failed.
NoHeaderOnlyWitness ==
    /\ csv.exists
    /\ csv.lines[1] = Header
    /\ \E i \in Slots : inv[i].wstate = "failed"

(***************************************************************************)
(* Error marks and rows                                                    *)
(***************************************************************************)
\* The handler in slot i ended with its object renamed "[ERROR_PROCESSED]" + name.
ErrorMarked(r) == r.pc \in Finished /\ r.renamed = "error"

\* C17 as stated: when a handler ends with its object error-marked, the CSV has
\* no row whose first column is the object's original name.
ErrorMarkedMeansNoRow ==
    \A i \in Slots :
        (ErrorMarking /\ ErrorMarked(inv[i])) =>
            RowsOf(csv.lines, inv[i].fileName) = <<>>

\* C17 amended: when a handler ends with its object error-marked after a failure
\* of the download, the extraction or the CSV's existence or size check, it has
\* issued no write and the CSV has no row whose first column is the object's
\* original name.
ErrorMarkedBeforeWriteMeansNoRow ==
    \A i \in Slots :
        (/\ ErrorMarking
         /\ ErrorMarked(inv[i])
         /\ inv[i].failedStep \in {"download", "extract", "csvMeta", "csvSize"}) =>
            /\ inv[i].nCsvWrite = 0
            /\ inv[i].wstate = "none"
            /\ RowsOf(csv.lines, inv[i].fileName) = <<>>

\* C17 witness: a handler ended error-marked after its size check of an existing
\* CSV failed.
ErrorMarkedNoRowWitness ==
    \E i \in Slots :
        /\ ErrorMarking
        /\ ErrorMarked(inv[i])
        /\ inv[i].failedStep = "csvSize"
        /\ Len(csv.lines) >= 2

(***************************************************************************)
(* Renames of one invocation                                               *)
(***************************************************************************)
\* C18: in one invocation the success rename and the error rename never both
\* succeed (after a successful success rename no error rename is attempted),
\* the error rename is attempted only after a step has failed, and each of the
\* two renames is attempted at most once.
AtMostOneSuccessfulRename ==
    \A i \in Slots :
        /\ inv[i].nRename <= 1
        /\ inv[i].nErrRename <= 1
        /\ inv[i].nErrRename > 0 => inv[i].failedStep # "none"
        /\ inv[i].renamed = "processed" =>
               /\ inv[i].nErrRename = 0
               /\ inv[i].pc = "returned"
        /\ inv[i].renamed = "error" =>
               \/ inv[i].nRename = 0
               \/ inv[i].failedStep = "rename"

\* C18 witness: the success rename of a handler failed and its error rename
\* succeeded: two attempts, one success.
AtMostOneRenameWitness ==
    \E i \in Slots :
        /\ inv[i].nRename = 1
        /\ inv[i].nErrRename = 1
        /\ inv[i].renamed = "error"
        /\ inv[i].pc = "threw"

(***************************************************************************)
(* One attempt, and an end                                                 *)
(***************************************************************************)
\* Every call a handler awaits returns or fails in the end.
CallsReturn == \A i \in Slots : WF_vars(Step(i))

\* Uploads and their handlers, without the events the runtime delivers on its
\* own (their handlers end where they start).
InitTermination ==
    /\ variant \in Variants
    /\ objects = [n \in {} |-> NoImage]
    /\ csv = [exists |-> FALSE, lines |-> <<>>, nl |-> TRUE]
    /\ pending = {}
    /\ inv = [i \in Slots |-> IdleInv]
    /\ delivered = MaxDeliver
    /\ faults = 0
    /\ completed = <<>>

NextTermination ==
    \/ \E b \in Bases, kind \in Kinds : Upload(b, kind)
    \/ \E ev \in pending : Start(ev)
    \/ \E ev \in pending : StartA(ev)
    \/ \E i \in Slots : Step(i)
    \/ \E i \in Slots : Settle(i)

TerminationSpec == InitTermination /\ [][NextTermination]_vars /\ CallsReturn

\* C19: an invocation calls the download at most once and the model at most
\* once, and with every awaited call returning or failing in the end, every
\* started invocation ends by returning or throwing.
SingleAttemptAndTermination ==
    /\ [](\A i \in Slots : inv[i].nDownload <= 1 /\ inv[i].nModel <= 1)
    /\ \A i \in Slots : Running(i) ~> (inv[i].pc \in Finished)

\* C19 witness: a handler threw after one download and one model call, the model
\* call having failed.
SingleAttemptWitness ==
    \E i \in Slots :
        /\ inv[i].pc = "threw"
        /\ inv[i].nDownload = 1
        /\ inv[i].nModel = 1
        /\ inv[i].failedStep = "extract"

(***************************************************************************)
(* Draft A and failures                                                    *)
(***************************************************************************)
\* C20: in draft A (index.js:24-57) a handler one of whose steps (download,
\* model call or JSON parse, CSV append, rename) failed has attempted to rename
\* its object with the error prefix and has thrown; it has not returned
\* normally with the object under its original name.
DraftAFailsHard ==
    \A i \in Slots :
        (variant = "A" /\ inv[i].pc \in Finished /\ StepFailed(inv[i])) =>
            /\ inv[i].pc = "threw"
            /\ inv[i].nErrRename = 1

====
